---- MODULE Spec2Model ----
(***************************************************************************)
(* A model of two independent components of the repository:                *)
(*   - downstream/vcc2018_linear_segment/model.py: the scoring head        *)
(*     (SelfAttentionPooling, Model), modelled on tensor shapes;           *)
(*   - s3prl/corpus/voxceleb1sid.py: the VoxCeleb1 speaker-identification  *)
(*     corpus (manifest download, split assignment, file search, labels,   *)
(*     dataset download).                                                  *)
(* Each component has its own specification over its own variables; the    *)
(* variables of the other components stay at their idle values.            *)
(***************************************************************************)
EXTENDS Integers, Sequences, FiniteSets, TLC

VARIABLES
    \* ---- model.py: Model.__init__ fields and the last forward() call
    input_dim,          \* nn.Linear(input_dim, 1)
    clipping,           \* self.clipping
    attention_pooling,  \* self.pooling is not None
    features,           \* shape of the argument of the last forward() call
    segment_score,      \* what the last forward() call produced
    fwd,                \* "constructed" | "returned" | "raised"
    \* ---- voxceleb1sid.py: _build_label applied to two identifiers
    label_src,          \* <<src, src>>: how each argument was written
    label_uid,          \* <<uid, uid>>: the arguments
    label_out,          \* <<result, result>>: NotCalled until called
    \* ---- voxceleb1sid.py: processes running _get_standard_usage
    pc,                 \* position of each process
    split_file,         \* the manifest file in the cache directory
    lock_holder,        \* process holding the FileLock, 0 when free
    downloads,          \* per process: how often it ran wget
    read_saw,           \* per process: the file state its readlines() saw
    \* ---- voxceleb1sid.py: download_dataset on one target directory
    tgt_exists,         \* os.path.exists(tgt_dir)
    files,              \* content of each archive file in tgt_dir
    wav_dirs,           \* splits whose Voxceleb1/<split>/wav exists
    dl_pc,              \* "idle" | "loop" | "returned" | "raised"
    dl_splits,          \* the splits argument of the running call
    dl_i,               \* index of the split the loop is at
    dl_calls,           \* calls made so far
    dl_http,            \* files requested over HTTP by the running call
    dl_start,           \* files and wav_dirs when the running call began
    \* ---- voxceleb1sid.py: VoxCeleb1SID.__init__ in one process
    wav_files,          \* the wav files on disk: <<root, dir, uid>>
    manifest,           \* the lines of the split file the constructor reads
    dataset_root,       \* self.dataset_root
    phase,              \* position of the constructor
    uid2split,          \* result of _get_standard_usage: <<uid, split>> in dict order
    split2uids,         \* self._split2uids
    pending,            \* uids whose find_wav_with_uid task has not finished
    found,              \* <<uid, path>> returned by the finished tasks
    uid2wavpath,        \* result of _find_wavs_with_uids: <<uid, path>> in dict order
    all_data,           \* self._data: <<record id, record>> in dict order
    cache,              \* entries of the @cache() of _find_wavs_with_uids
    searches,           \* glob calls made by the running constructor
    computed,           \* every mapping a file search has produced so far
    prior,              \* mappings produced earlier for this root and uid set
    drops               \* constructors run to their end and followed by another

scoreVars == <<input_dim, clipping, attention_pooling, features, segment_score, fwd>>

labelVars == <<label_src, label_uid, label_out>>

lockVars == <<pc, split_file, lock_holder, downloads, read_saw>>

dlVars == <<tgt_exists, files, wav_dirs, dl_pc, dl_splits, dl_i, dl_calls,
            dl_http, dl_start>>

corpusVars == <<wav_files, manifest, dataset_root, phase, uid2split, split2uids,
                pending, found, uid2wavpath, all_data, cache, searches, computed,
                prior, drops>>

vars == <<scoreVars, labelVars, lockVars, dlVars, corpusVars>>

(***************************************************************************)
(* Bounds of the model.                                                    *)
(***************************************************************************)
MaxRank == 4    \* input tensors have rank 0..MaxRank
MaxDim  == 3    \* every dimension is in 0..MaxDim
MaxSpeaker == 50    \* speaker codes reach LabelOffset + MaxSpeaker
MaxBelow == 2       \* and start at LabelOffset - MaxBelow
MaxLeadingZeros == 1 \* zeros written before the speaker code
NumProcs == 3       \* processes running _get_standard_usage
MaxSplits == 2      \* length of the splits argument of download_dataset
MaxCalls == 2       \* calls of download_dataset
MaxLines == 2       \* lines of the manifest
CodeSlack == 2      \* split codes range over (1 - CodeSlack)..(3 + CodeSlack)
MaxDrops == 1       \* constructions that are followed by another one

(***************************************************************************)
(* Tensors, by shape.  A tensor is its shape (a sequence of dimension      *)
(* sizes, <<>> for a 0-dimensional scalar), whether it holds a NaN, and    *)
(* the range its other values lie in: "real" (any), "weights" (softmax     *)
(* output, in [0, 1]) or "clipped" (tanh(x) * 2 + 3, in [1, 5]).  An       *)
(* operation that raises yields ErrT.                                      *)
(***************************************************************************)
ErrT == [ok |-> FALSE, shape |-> <<>>, nan |-> FALSE, range |-> "real"]

Tensor(s, n, r) == [ok |-> TRUE, shape |-> s, nan |-> n, range |-> r]

Last(s) == s[Len(s)]

Front(s) == SubSeq(s, 1, Len(s) - 1)

RECURSIVE Numel(_)
Numel(s) == IF Len(s) = 0 THEN 1 ELSE s[1] * Numel(Tail(s))

\* nn.Linear(in_features, 1) applied to x: the last dimension must be
\* in_features and becomes 1.
Linear(x, in_features) ==
    IF ~x.ok \/ Len(x.shape) = 0 THEN ErrT
    ELSE IF Last(x.shape) # in_features THEN ErrT
    ELSE Tensor(Front(x.shape) \o <<1>>, x.nan, "real")

\* x.squeeze(-1): drops the last dimension when its size is 1; a
\* 0-dimensional tensor is returned as it is.
Squeeze(x) ==
    IF ~x.ok THEN ErrT
    ELSE IF Len(x.shape) > 0 /\ Last(x.shape) = 1
         THEN Tensor(Front(x.shape), x.nan, x.range)
         ELSE x

\* x.unsqueeze(-1)
Unsqueeze(x) ==
    IF ~x.ok THEN ErrT ELSE Tensor(x.shape \o <<1>>, x.nan, x.range)

\* x.mean(dim=-1): the mean over an empty dimension is NaN, not an error.
Mean(x) ==
    IF ~x.ok THEN ErrT
    ELSE IF Len(x.shape) = 0 THEN x
    ELSE Tensor(Front(x.shape),
                x.nan \/ (Last(x.shape) = 0 /\ Numel(Front(x.shape)) > 0),
                x.range)

\* nn.functional.softmax(x) with no dim: the dimension is chosen from the
\* rank; the shape is kept, and an empty dimension is no error.
Softmax(x) ==
    IF ~x.ok THEN ErrT ELSE Tensor(x.shape, x.nan, "weights")

\* a * b with broadcasting: shapes are aligned on the right, and two sizes
\* are compatible when equal or when one of them is 1.
Max(a, b) == IF a >= b THEN a ELSE b

PadLeft(s, n) == [i \in 1..n |-> IF i <= n - Len(s) THEN 1 ELSE s[i - (n - Len(s))]]

Mul(a, b) ==
    IF ~a.ok \/ ~b.ok THEN ErrT
    ELSE LET n  == Max(Len(a.shape), Len(b.shape))
             pa == PadLeft(a.shape, n)
             pb == PadLeft(b.shape, n)
         IN IF \E i \in 1..n : pa[i] # pb[i] /\ pa[i] # 1 /\ pb[i] # 1
            THEN ErrT
            ELSE Tensor([i \in 1..n |-> IF pa[i] = 1 THEN pb[i] ELSE pa[i]],
                        a.nan \/ b.nan, "real")

\* torch.sum(x, dim=1): dimension 1 must exist.
Sum1(x) ==
    IF ~x.ok \/ Len(x.shape) < 2 THEN ErrT
    ELSE Tensor(<<x.shape[1]>> \o SubSeq(x.shape, 3, Len(x.shape)), x.nan, "real")

\* torch.tanh(x) * 2 + 3: elementwise; a NaN stays a NaN.
TanhAffine(x) ==
    IF ~x.ok THEN ErrT ELSE Tensor(x.shape, x.nan, "clipped")

\* SelfAttentionPooling.forward
SelfAttentionPooling(batch_rep) ==
    LET att_w == Unsqueeze(Softmax(Squeeze(Linear(batch_rep, input_dim))))
    IN Sum1(Mul(batch_rep, att_w))

\* Model.forward
ModelForward(f) ==
    LET x0    == Tensor(f, FALSE, "real")
        score == IF attention_pooling
                 THEN Linear(SelfAttentionPooling(x0), input_dim)
                 ELSE Mean(Squeeze(Linear(x0, input_dim)))
        clipped == IF clipping THEN TanhAffine(score) ELSE score
    IN Squeeze(clipped)

Shapes == UNION {[1..r -> 0..MaxDim] : r \in 0..MaxRank}

ScoreIdle ==
    /\ input_dim = 1
    /\ clipping = FALSE
    /\ attention_pooling = FALSE
    /\ features = <<>>
    /\ segment_score = ErrT
    /\ fwd = "constructed"

\* Model(input_dim, clipping, attention_pooling)
InitScore ==
    /\ input_dim \in 1..MaxDim
    /\ clipping \in BOOLEAN
    /\ attention_pooling \in BOOLEAN
    /\ features = <<>>
    /\ segment_score = ErrT
    /\ fwd = "constructed"

\* one call model(features)
Forward(f) ==
    /\ fwd = "constructed"
    /\ features' = f
    /\ segment_score' = ModelForward(f)
    /\ fwd' = IF ModelForward(f).ok THEN "returned" ELSE "raised"
    /\ UNCHANGED <<input_dim, clipping, attention_pooling>>
    /\ UNCHANGED <<labelVars, lockVars, dlVars, corpusVars>>

NextScore == \E f \in Shapes : Forward(f)

(***************************************************************************)
(* Strings are sequences of one-character strings.                         *)
(***************************************************************************)
Digits == <<"0", "1", "2", "3", "4", "5", "6", "7", "8", "9">>

IsDigit(c) == \E i \in 1..10 : Digits[i] = c

DigitVal(c) == (CHOOSE i \in 1..10 : Digits[i] = c) - 1

\* str(k) for a natural number
RECURSIVE NatStr(_)
NatStr(k) == IF k < 10 THEN <<Digits[k + 1]>>
             ELSE NatStr(k \div 10) \o <<Digits[(k % 10) + 1]>>

\* f"{k}" for an integer
PyStr(k) == IF k < 0 THEN <<"-">> \o NatStr(0 - k) ELSE NatStr(k)

RECURSIVE DigitsVal(_)
DigitsVal(s) == IF Len(s) = 0 THEN 0
                ELSE 10 * DigitsVal(Front(s)) + DigitVal(Last(s))

\* int(s): an optional sign, then one or more decimal digits; ValueError
\* otherwise.
PyInt(s) ==
    LET signed == Len(s) > 0 /\ s[1] \in {"-", "+"}
        body   == IF signed THEN Tail(s) ELSE s
    IN IF Len(body) = 0 \/ \E i \in 1..Len(body) : ~IsDigit(body[i])
       THEN [ok |-> FALSE, val |-> 0]
       ELSE [ok |-> TRUE,
             val |-> IF signed /\ s[1] = "-" THEN 0 - DigitsVal(body)
                     ELSE DigitsVal(body)]

\* s.split(sep)[0]
SplitFirst(s, sep) ==
    IF \E i \in 1..Len(s) : s[i] = sep
    THEN SubSeq(s, 1, (CHOOSE i \in 1..Len(s) :
                          s[i] = sep /\ \A j \in 1..(i - 1) : s[j] # sep) - 1)
    ELSE s

\* s[k:]
DropFirst(s, k) == SubSeq(s, k + 1, Len(s))

LabelOffset == 10001

SpeakerPrefix == <<"s", "p", "e", "a", "k", "e", "r", "_">>

ValueError == <<"ValueError">>

\* _build_label with the offset off by one
BuildLabel_OffByOne(uid) ==
    LET id_string == SplitFirst(uid, "/")
        n         == PyInt(DropFirst(id_string, 2))
    IN IF n.ok THEN SpeakerPrefix \o PyStr(n.val - (LabelOffset - 1)) ELSE ValueError

\* VoxCeleb1SID._build_label
BuildLabel(uid) ==
    LET id_string == SplitFirst(uid, "/")
        n         == PyInt(DropFirst(id_string, 2))
    IN IF n.ok THEN SpeakerPrefix \o PyStr(n.val - LabelOffset) ELSE ValueError

(***************************************************************************)
(* _build_label: inputs.  An identifier is id<zeros><code>/<video>/<file>.  *)
(***************************************************************************)
SpeakerCodes == (LabelOffset - MaxBelow)..(LabelOffset + MaxSpeaker)

Zeros(z) == [i \in 1..z |-> "0"]

UidTail == <<"/", "v", "/", "1", ".", "w", "a", "v">>

MkUid(n, z) == <<"i", "d">> \o Zeros(z) \o NatStr(n) \o UidTail

MalformedUid == <<"i", "d", "x", "1">> \o UidTail

LabelSources ==
    [code : SpeakerCodes, zeros : 0..MaxLeadingZeros, digits : {TRUE}]
    \cup {[code |-> LabelOffset, zeros |-> 0, digits |-> FALSE]}

UidOf(src) == IF src.digits THEN MkUid(src.code, src.zeros) ELSE MalformedUid

NotCalled == <<"NotCalled">>

LabelIdle ==
    /\ label_src = <<[code |-> LabelOffset, zeros |-> 0, digits |-> FALSE],
                     [code |-> LabelOffset, zeros |-> 0, digits |-> FALSE]>>
    /\ label_uid = <<MalformedUid, MalformedUid>>
    /\ label_out = <<NotCalled, NotCalled>>

InitLabel ==
    /\ label_src \in LabelSources \X LabelSources
    /\ label_uid = <<UidOf(label_src[1]), UidOf(label_src[2])>>
    /\ label_out = <<NotCalled, NotCalled>>

\* one call _build_label(label_uid[i])
BuildLabelCall(i) ==
    /\ label_out[i] = NotCalled
    /\ label_out' = [label_out EXCEPT ![i] = BuildLabel(label_uid[i])]
    /\ UNCHANGED <<label_src, label_uid>>
    /\ UNCHANGED <<scoreVars, lockVars, dlVars, corpusVars>>

NextLabel == \E i \in 1..2 : BuildLabelCall(i)

(***************************************************************************)
(* _get_standard_usage run by several processes sharing the cache          *)
(* directory.  The manifest file is absent, incomplete (created or         *)
(* truncated by wget -O and not yet fully written) or complete.            *)
(***************************************************************************)
Procs == 1..NumProcs

LockIdle ==
    /\ pc = [p \in Procs |-> "done"]
    /\ split_file = "complete"
    /\ lock_holder = 0
    /\ downloads = [p \in Procs |-> 0]
    /\ read_saw = [p \in Procs |-> "none"]

InitLock ==
    /\ pc = [p \in Procs |-> "is_file"]
    /\ split_file \in {"absent", "complete"}
    /\ lock_holder = 0
    /\ downloads = [p \in Procs |-> 0]
    /\ read_saw = [p \in Procs |-> "none"]

\* line 58: if not split_filepath.is_file()
IsFile(p) ==
    /\ pc[p] = "is_file"
    /\ pc' = [pc EXCEPT ![p] = IF split_file = "absent" THEN "acquire" ELSE "read"]
    /\ UNCHANGED <<split_file, lock_holder, downloads, read_saw>>
    /\ UNCHANGED <<scoreVars, labelVars, dlVars, corpusVars>>

\* line 59: with FileLock(...): blocks until the lock is free
Acquire(p) ==
    /\ pc[p] = "acquire"
    /\ lock_holder = 0
    /\ lock_holder' = p
    /\ pc' = [pc EXCEPT ![p] = "wget"]
    /\ UNCHANGED <<split_file, downloads, read_saw>>
    /\ UNCHANGED <<scoreVars, labelVars, dlVars, corpusVars>>

\* line 60: wget -O creates or truncates the output file before writing
WgetOpen(p) ==
    /\ pc[p] = "wget"
    /\ split_file' = "incomplete"
    /\ downloads' = [downloads EXCEPT ![p] = @ + 1]
    /\ pc' = [pc EXCEPT ![p] = "writing"]
    /\ UNCHANGED <<lock_holder, read_saw>>
    /\ UNCHANGED <<scoreVars, labelVars, dlVars, corpusVars>>

\* line 60: wget writes the whole file and exits
WgetDone(p) ==
    /\ pc[p] = "writing"
    /\ split_file' = "complete"
    /\ pc' = [pc EXCEPT ![p] = "release"]
    /\ UNCHANGED <<lock_holder, downloads, read_saw>>
    /\ UNCHANGED <<scoreVars, labelVars, dlVars, corpusVars>>

\* line 60: wget fails; os.system's status is not looked at
WgetFail(p) ==
    /\ pc[p] = "writing"
    /\ pc' = [pc EXCEPT ![p] = "release"]
    /\ UNCHANGED <<split_file, lock_holder, downloads, read_saw>>
    /\ UNCHANGED <<scoreVars, labelVars, dlVars, corpusVars>>

\* end of the with block
Release(p) ==
    /\ pc[p] = "release"
    /\ lock_holder' = 0
    /\ pc' = [pc EXCEPT ![p] = "read"]
    /\ UNCHANGED <<split_file, downloads, read_saw>>
    /\ UNCHANGED <<scoreVars, labelVars, dlVars, corpusVars>>

\* lines 61-63: open(split_filepath).readlines()
ReadLines(p) ==
    /\ pc[p] = "read"
    /\ read_saw' = [read_saw EXCEPT ![p] = split_file]
    /\ pc' = [pc EXCEPT ![p] = "done"]
    /\ UNCHANGED <<split_file, lock_holder, downloads>>
    /\ UNCHANGED <<scoreVars, labelVars, dlVars, corpusVars>>

NextLock ==
    \E p \in Procs :
        \/ IsFile(p)
        \/ Acquire(p)
        \/ WgetOpen(p)
        \/ WgetDone(p)
        \/ WgetFail(p)
        \/ Release(p)
        \/ ReadLines(p)

(***************************************************************************)
(* download_dataset(target_dir, splits).  A file of the target directory   *)
(* is absent, ok (completely written) or junk (partly written, or a        *)
(* concatenation with a junk part).                                        *)
(***************************************************************************)
PartNames == <<"vox1_dev_wav_partaa", "vox1_dev_wav_partab",
               "vox1_dev_wav_partac", "vox1_dev_wav_partad">>

DevZip == "vox1_dev_wav.zip"

TestZip == "vox1_test_wav.zip"

FileNames == {PartNames[k] : k \in 1..Len(PartNames)} \cup {DevZip, TestZip}

SplitNames == {"dev", "test"}

\* what one HTTP download does: "ok" (r.ok, the body is written), "fail"
\* (not r.ok: logged, nothing written), "refused" (requests.get raises)
\* or "broken" (the stream breaks while the file is being written: the
\* exception propagates)
Outcomes == {"ok", "fail", "refused", "broken"}

\* download_from_url, lines 110-127
DownloadFromUrl(fs, name, outcome) ==
    CASE outcome = "ok"     -> [files |-> [fs EXCEPT ![name] = "ok"], raised |-> FALSE]
      [] outcome = "fail"   -> [files |-> fs, raised |-> FALSE]
      [] outcome = "refused" -> [files |-> fs, raised |-> TRUE]
      [] outcome = "broken" -> [files |-> [fs EXCEPT ![name] = "junk"], raised |-> TRUE]

\* unzip_then_delete, lines 103-108
UnzipThenDelete(fs, wd, name, split) ==
    IF fs[name] # "ok"
    THEN [files |-> fs, wav_dirs |-> wd, raised |-> TRUE]
    ELSE [files |-> [fs EXCEPT ![name] = "absent"],
          wav_dirs |-> wd \cup {split}, raised |-> FALSE]

\* download_dev, lines 132-141, from part k on; rq: the parts requested
RECURSIVE FetchParts(_, _, _, _)
FetchParts(fs, k, o, rq) ==
    IF k > Len(PartNames) THEN [files |-> fs, raised |-> FALSE, requested |-> rq]
    ELSE IF fs[PartNames[k]] # "absent" THEN FetchParts(fs, k + 1, o, rq)
    ELSE LET r == DownloadFromUrl(fs, PartNames[k], o[k])
         IN IF r.raised
            THEN [files |-> r.files, raised |-> TRUE,
                  requested |-> rq \cup {PartNames[k]}]
            ELSE FetchParts(r.files, k + 1, o, rq \cup {PartNames[k]})

\* download_dev, lines 129-152
DownloadDev(fs, wd, o) ==
    LET got == FetchParts(fs, 1, o, {})
        present == \A k \in 1..Len(PartNames) : got.files[PartNames[k]] # "absent"
        allOk == \A k \in 1..Len(PartNames) : got.files[PartNames[k]] = "ok"
        joined == [n \in FileNames |->
                     IF n = DevZip THEN (IF allOk THEN "ok" ELSE "junk")
                     ELSE IF n = TestZip THEN got.files[n]
                     ELSE "absent"]
        unz == UnzipThenDelete(joined, wd, DevZip, "dev")
    IN IF got.raised
       THEN [files |-> got.files, wav_dirs |-> wd, raised |-> TRUE,
             requested |-> got.requested]
       ELSE IF ~present
       THEN [files |-> [got.files EXCEPT ![DevZip] = "junk"], wav_dirs |-> wd,
             raised |-> TRUE, requested |-> got.requested]
       ELSE [files |-> unz.files, wav_dirs |-> unz.wav_dirs, raised |-> unz.raised,
             requested |-> got.requested]

\* lines 159-163: any split but "dev" fetches and extracts the test archive
DownloadTest(fs, wd, outcome) ==
    LET got == DownloadFromUrl(fs, TestZip, outcome)
        unz == UnzipThenDelete(got.files, wd, TestZip, "test")
    IN IF got.raised
       THEN [files |-> got.files, wav_dirs |-> wd, raised |-> TRUE,
             requested |-> {TestZip}]
       ELSE [files |-> unz.files, wav_dirs |-> unz.wav_dirs, raised |-> unz.raised,
             requested |-> {TestZip}]

\* the guard of line 155, always taken
Extracted_Never(split) == FALSE

\* line 155: os.path.exists(tgt_dir/Voxceleb1/<split>/wav)
Extracted(split) == split \in wav_dirs

SplitLists == UNION {[1..n -> SplitNames] : n \in 0..MaxSplits}

NoFiles == [n \in FileNames |-> "absent"]

DlIdle ==
    /\ tgt_exists = FALSE
    /\ files = NoFiles
    /\ wav_dirs = {}
    /\ dl_pc = "idle"
    /\ dl_splits = <<>>
    /\ dl_i = 1
    /\ dl_calls = 0
    /\ dl_http = {}
    /\ dl_start = [files |-> NoFiles, wav_dirs |-> {}]

InitDl ==
    /\ tgt_exists \in BOOLEAN
    /\ files = NoFiles
    /\ wav_dirs = {}
    /\ dl_pc = "idle"
    /\ dl_splits = <<>>
    /\ dl_i = 1
    /\ dl_calls = 0
    /\ dl_http = {}
    /\ dl_start = [files |-> NoFiles, wav_dirs |-> {}]

\* lines 93-97: the call, and its assertion that the target directory exists
DownloadDataset(splits) ==
    /\ dl_pc \in {"idle", "returned", "raised"}
    /\ dl_calls < MaxCalls
    /\ dl_calls' = dl_calls + 1
    /\ dl_splits' = splits
    /\ dl_i' = 1
    /\ dl_http' = {}
    /\ dl_start' = [files |-> files, wav_dirs |-> wav_dirs]
    /\ dl_pc' = IF tgt_exists THEN "loop" ELSE "raised"
    /\ UNCHANGED <<tgt_exists, files, wav_dirs>>
    /\ UNCHANGED <<scoreVars, labelVars, lockVars, corpusVars>>

\* lines 154-155: the split is extracted already
SkipSplit ==
    /\ dl_pc = "loop"
    /\ dl_i <= Len(dl_splits)
    /\ Extracted(dl_splits[dl_i])
    /\ dl_i' = dl_i + 1
    /\ UNCHANGED <<tgt_exists, files, wav_dirs, dl_pc, dl_splits, dl_calls,
                   dl_http, dl_start>>
    /\ UNCHANGED <<scoreVars, labelVars, lockVars, corpusVars>>

\* lines 155-163: the split is fetched and extracted
FetchSplit(o) ==
    /\ dl_pc = "loop"
    /\ dl_i <= Len(dl_splits)
    /\ ~Extracted(dl_splits[dl_i])
    /\ LET r == IF dl_splits[dl_i] = "dev"
                THEN DownloadDev(files, wav_dirs, o)
                ELSE DownloadTest(files, wav_dirs, o[1])
       IN /\ files' = r.files
          /\ wav_dirs' = r.wav_dirs
          /\ dl_http' = dl_http \cup r.requested
          /\ dl_pc' = IF r.raised THEN "raised" ELSE "loop"
          /\ dl_i' = IF r.raised THEN dl_i ELSE dl_i + 1
    /\ UNCHANGED <<tgt_exists, dl_splits, dl_calls, dl_start>>
    /\ UNCHANGED <<scoreVars, labelVars, lockVars, corpusVars>>

\* line 165: the loop is over
ReturnDl ==
    /\ dl_pc = "loop"
    /\ dl_i > Len(dl_splits)
    /\ dl_pc' = "returned"
    /\ UNCHANGED <<tgt_exists, files, wav_dirs, dl_splits, dl_i, dl_calls,
                   dl_http, dl_start>>
    /\ UNCHANGED <<scoreVars, labelVars, lockVars, corpusVars>>

NextDl ==
    \/ \E splits \in SplitLists : DownloadDataset(splits)
    \/ SkipSplit
    \/ \E o \in [1..Len(PartNames) -> Outcomes] : FetchSplit(o)
    \/ ReturnDl

(***************************************************************************)
(* VoxCeleb1SID.__init__: the manifest, the split lists, the file search   *)
(* and its cache, the records.                                             *)
(***************************************************************************)
\* the characters of the model in code-point order
Alphabet == <<"-", ".", "/"
              , "0", "1", "2", "3", "4", "5", "6", "7", "8", "9"
              , "a", "b", "c", "d", "e", "f", "g", "h", "i", "j", "k", "l", "m"
              , "n", "o", "p", "q", "r", "s", "t", "u", "v", "w", "x", "y", "z">>

Ord(c) == CHOOSE i \in 1..Len(Alphabet) : Alphabet[i] = c

\* a < b on strings, as Python compares them
RECURSIVE StrLess(_, _)
StrLess(a, b) ==
    IF Len(b) = 0 THEN FALSE
    ELSE IF Len(a) = 0 THEN TRUE
    ELSE IF a[1] = b[1] THEN StrLess(Tail(a), Tail(b))
    ELSE Ord(a[1]) < Ord(b[1])

RECURSIVE Insert(_, _)
Insert(x, s) ==
    IF Len(s) = 0 THEN <<x>>
    ELSE IF StrLess(s[1], x) THEN <<s[1]>> \o Insert(x, Tail(s))
    ELSE <<x>> \o s

\* the list is passed on as it is
Sorted_Unsorted(s) == s

\* sorted(s) on a list of strings
RECURSIVE Sorted(_)
Sorted(s) == IF Len(s) = 0 THEN <<>> ELSE Insert(s[1], Sorted(Tail(s)))

\* s.replace(a, b) for single characters
Replace(s, a, b) == [i \in 1..Len(s) |-> IF s[i] = a THEN b ELSE s[i]]

\* Path(name).stem for a name with no separator: the name without its last
\* suffix; a leading or a trailing dot starts no suffix
Stem(name) ==
    LET dots == {i \in 1..Len(name) : name[i] = "."}
        i    == CHOOSE k \in dots : \A j \in dots : j <= k
    IN IF dots # {} /\ 1 < i /\ i < Len(name) THEN SubSeq(name, 1, i - 1) ELSE name

\* lines 29 and 35: Path(uid.replace("/", "-")).stem
RecordId(uid) == Stem(Replace(uid, "/", "-"))

\* an ordered dict is a sequence of <<key, value>> with distinct keys
Keys(d) == [i \in 1..Len(d) |-> d[i][1]]

KeySet(d) == {d[i][1] : i \in 1..Len(d)}

HasKey(d, k) == \E i \in 1..Len(d) : d[i][1] = k

Get(d, k) == d[CHOOSE i \in 1..Len(d) : d[i][1] = k][2]

\* d[k] = v
Put(d, k, v) ==
    IF HasKey(d, k)
    THEN [i \in 1..Len(d) |-> IF d[i][1] = k THEN <<k, v>> ELSE d[i]]
    ELSE Append(d, <<k, v>>)

SplitNames3 == <<"train", "valid", "test">>

\* code2split, lines 65-67: splits[code - 1], with Python's indexing of a
\* list of three (a negative index counts from the end)
Code2Split(code) ==
    LET idx == code - 1
    IN IF idx \in 0..(Len(SplitNames3) - 1) THEN SplitNames3[idx + 1]
       ELSE IF idx \in (0 - Len(SplitNames3))..(0 - 1)
            THEN SplitNames3[Len(SplitNames3) + idx + 1]
       ELSE "IndexError"

\* _get_standard_usage, lines 61-70, on the lines read: every line must
\* hold two fields <<split code, uid>>; a later line for the same uid
\* replaces the split of an earlier one
RECURSIVE GetStandardUsage(_)
GetStandardUsage(lines) ==
    IF Len(lines) = 0 THEN [ok |-> TRUE, usage |-> <<>>]
    ELSE LET before == GetStandardUsage(Front(lines))
             line   == Last(lines)
         IN IF ~before.ok \/ Len(line) # 2 THEN [ok |-> FALSE, usage |-> <<>>]
            ELSE IF Code2Split(line[1]) = "IndexError"
                 THEN [ok |-> FALSE, usage |-> <<>>]
            ELSE [ok |-> TRUE,
                  usage |-> Put(before.usage, line[2], Code2Split(line[1]))]

NoSplits == [sp \in {"train", "valid", "test"} |-> <<>>]

\* lines 27-29: self._split2uids[split].append(record id)
RECURSIVE SplitUids(_)
SplitUids(usage) ==
    IF Len(usage) = 0 THEN NoSplits
    ELSE LET before == SplitUids(Front(usage))
             e      == Last(usage)
         IN [before EXCEPT ![e[2]] = Append(@, RecordId(e[1]))]

\* dataset_root.glob("*/wav/<uid>")
Glob(root, uid) == {f \in wav_files : f[1] = root /\ f[3] = uid}

\* the assertion of line 77 lets any non-empty result pass
FoundOk_NonEmpty(found_wavs) == Cardinality(found_wavs) >= 1

\* line 77: assert len(found_wavs) == 1
FoundOk(found_wavs) == Cardinality(found_wavs) = 1

\* line 78: found_wavs[0]
FirstFound(found_wavs) == CHOOSE f \in found_wavs : TRUE

\* lines 80-83: the results in the order of the uids passed
Uids2Wav(uids, results) ==
    [i \in 1..Len(uids) |->
        <<uids[i], (CHOOSE r \in results : r[1] = uids[i])[2]>>]

\* lines 34-40: the record of every uid, keyed by its record id
RECURSIVE BuildData(_, _)
BuildData(usage, wavs) ==
    IF Len(usage) = 0 THEN <<>>
    ELSE LET uid == Last(usage)[1]
         IN Put(BuildData(Front(usage), wavs), RecordId(uid),
                [wav_path |-> Get(wavs, uid), label |-> BuildLabel(uid)])

\* the @cache() decorator: an entry per (dataset_root, uids) it was called with
CacheKey(root, uids) == <<root, uids>>

CacheHit(c, key) == \E e \in c : e[1] = key

CacheValue(c, key) == (CHOOSE e \in c : e[1] = key)[2]

CachePut(c, key, value) == c \cup {<<key, value>>}

(***************************************************************************)
(* Inputs of the constructor.                                              *)
(***************************************************************************)
UidA == <<"i", "d", "1", "0", "0", "0", "1", "/", "a", "/", "b", ".", "w", "a", "v">>

UidB == <<"i", "d", "1", "0", "0", "0", "1", "/", "a", "-", "b", ".", "w", "a", "v">>

UidC == <<"i", "d", "1", "0", "0", "0", "2", "/", "c", "/", "d", ".", "w", "a", "v">>

Uids == {UidA, UidB, UidC}

Roots == {"rootA", "rootB"}

Dirs == {"dev", "test"}

\* rootB holds every file once
IntactB == {<<"rootB", "dev", u>> : u \in Uids}

SeqsUpTo(S, n) == UNION {[1..k -> S] : k \in 0..n}

\* manifests with split codes 1, 2, 3
Manifests == SeqsUpTo({1, 2, 3} \X Uids, MaxLines)

\* manifests with any split code, and lines of one field
WideManifests ==
    SeqsUpTo(((1 - CodeSlack)..(3 + CodeSlack)) \X Uids \cup {<<"">>}, MaxLines)

\* manifests over two identifiers, in any order
CacheManifests == SeqsUpTo({<<1, UidA>>, <<3, UidC>>}, MaxLines)

CorpusIdle ==
    /\ wav_files = IntactB
    /\ manifest = <<>>
    /\ dataset_root = "rootB"
    /\ phase = "idle"
    /\ uid2split = <<>>
    /\ split2uids = NoSplits
    /\ pending = {}
    /\ found = {}
    /\ uid2wavpath = <<>>
    /\ all_data = <<>>
    /\ cache = {}
    /\ searches = 0
    /\ computed = {}
    /\ prior = {}
    /\ drops = 0

InitCorpus ==
    /\ wav_files \in {fs \cup IntactB : fs \in SUBSET ({"rootA"} \X Dirs \X Uids)}
    /\ manifest = <<>>
    /\ dataset_root = "rootB"
    /\ phase = "idle"
    /\ uid2split = <<>>
    /\ split2uids = NoSplits
    /\ pending = {}
    /\ found = {}
    /\ uid2wavpath = <<>>
    /\ all_data = <<>>
    /\ cache = {}
    /\ searches = 0
    /\ computed = {}
    /\ prior = {}
    /\ drops = 0

\* VoxCeleb1SID(root) is called; the split file holds the lines m
Begin(m, root) ==
    /\ phase = "idle"
    /\ manifest' = m
    /\ dataset_root' = root
    /\ phase' = "usage"
    /\ UNCHANGED <<wav_files, uid2split, split2uids, pending, found, uid2wavpath,
                   all_data, cache, searches, computed, prior, drops>>
    /\ UNCHANGED <<scoreVars, labelVars, lockVars, dlVars>>

\* lines 26-29
Usage ==
    /\ phase = "usage"
    /\ LET u == GetStandardUsage(manifest)
       IN IF u.ok
          THEN /\ uid2split' = u.usage
               /\ split2uids' = SplitUids(u.usage)
               /\ phase' = "find"
          ELSE /\ phase' = "aborted"
               /\ UNCHANGED <<uid2split, split2uids>>
    /\ UNCHANGED <<wav_files, manifest, dataset_root, pending, found, uid2wavpath,
                   all_data, cache, searches, computed, prior, drops>>
    /\ UNCHANGED <<scoreVars, labelVars, lockVars, dlVars>>

\* lines 31-33 and 73: the call of the cached _find_wavs_with_uids
FindWavs ==
    /\ phase = "find"
    /\ LET uids == Sorted(Keys(uid2split))
           key  == CacheKey(dataset_root, uids)
       IN /\ prior' = {e[3] : e \in {c \in computed :
                          c[1] = dataset_root /\ c[2] = KeySet(uid2split)}}
          /\ IF CacheHit(cache, key)
             THEN /\ uid2wavpath' = CacheValue(cache, key)
                  /\ phase' = "data"
                  /\ UNCHANGED pending
             ELSE /\ pending' = KeySet(uid2split)
                  /\ phase' = "search"
                  /\ UNCHANGED uid2wavpath
    /\ UNCHANGED <<wav_files, manifest, dataset_root, uid2split, split2uids, found,
                   all_data, cache, searches, computed, drops>>
    /\ UNCHANGED <<scoreVars, labelVars, lockVars, dlVars>>

\* lines 75-78: one task of Parallel finishes; a failed assertion ends the
\* constructor
FindWavWithUid(uid) ==
    /\ phase = "search"
    /\ uid \in pending
    /\ searches' = searches + 1
    /\ LET found_wavs == Glob(dataset_root, uid)
       IN IF FoundOk(found_wavs)
          THEN /\ found' = found \cup {<<uid, FirstFound(found_wavs)>>}
               /\ pending' = pending \ {uid}
               /\ UNCHANGED phase
          ELSE /\ phase' = "aborted"
               /\ found' = {}
               /\ pending' = {}
    /\ UNCHANGED <<wav_files, manifest, dataset_root, uid2split, split2uids,
                   uid2wavpath, all_data, cache, computed, prior, drops>>
    /\ UNCHANGED <<scoreVars, labelVars, lockVars, dlVars>>

\* lines 80-84: every task has finished; the result is returned and cached
Collect ==
    /\ phase = "search"
    /\ pending = {}
    /\ LET uids == Sorted(Keys(uid2split))
           wavs == Uids2Wav(uids, found)
       IN /\ uid2wavpath' = wavs
          /\ cache' = CachePut(cache, CacheKey(dataset_root, uids), wavs)
          /\ computed' = computed \cup {<<dataset_root, KeySet(uid2split), wavs>>}
    /\ found' = {}
    /\ phase' = "data"
    /\ UNCHANGED <<wav_files, manifest, dataset_root, uid2split, split2uids, pending,
                   all_data, searches, prior, drops>>
    /\ UNCHANGED <<scoreVars, labelVars, lockVars, dlVars>>

\* lines 34-40
Data ==
    /\ phase = "data"
    /\ IF \E i \in 1..Len(uid2split) : BuildLabel(uid2split[i][1]) = ValueError
       THEN /\ phase' = "aborted"
            /\ UNCHANGED all_data
       ELSE /\ all_data' = BuildData(uid2split, uid2wavpath)
            /\ phase' = "done"
    /\ UNCHANGED <<wav_files, manifest, dataset_root, uid2split, split2uids, pending,
                   found, uid2wavpath, cache, searches, computed, prior, drops>>
    /\ UNCHANGED <<scoreVars, labelVars, lockVars, dlVars>>

\* the constructor is over and the process goes on to the next one: the
\* cache stays
Drop ==
    /\ phase \in {"done", "aborted"}
    /\ drops < MaxDrops
    /\ drops' = drops + 1
    /\ phase' = "idle"
    /\ manifest' = <<>>
    /\ uid2split' = <<>>
    /\ split2uids' = NoSplits
    /\ uid2wavpath' = <<>>
    /\ all_data' = <<>>
    /\ searches' = 0
    /\ prior' = {}
    /\ UNCHANGED <<wav_files, dataset_root, pending, found, cache, computed>>
    /\ UNCHANGED <<scoreVars, labelVars, lockVars, dlVars>>

Steps ==
    \/ Usage
    \/ FindWavs
    \/ \E uid \in Uids : FindWavWithUid(uid)
    \/ Collect
    \/ Data

NextCorpus ==
    \/ \E m \in Manifests : Begin(m, "rootA")
    \/ Steps

NextUsage ==
    \/ \E m \in WideManifests : Begin(m, "rootB")
    \/ Usage

NextCache ==
    \/ \E m \in CacheManifests, root \in Roots : Begin(m, root)
    \/ Steps
    \/ Drop

(***************************************************************************)
(* Specifications.                                                         *)
(***************************************************************************)
InitScoreAll == InitScore /\ LabelIdle /\ LockIdle /\ DlIdle /\ CorpusIdle

SpecScore == InitScoreAll /\ [][NextScore]_vars

InitLabelAll == InitLabel /\ ScoreIdle /\ LockIdle /\ DlIdle /\ CorpusIdle

SpecLabel == InitLabelAll /\ [][NextLabel]_vars

InitLockAll == InitLock /\ ScoreIdle /\ LabelIdle /\ DlIdle /\ CorpusIdle

SpecLock == InitLockAll /\ [][NextLock]_vars

InitDlAll == InitDl /\ ScoreIdle /\ LabelIdle /\ LockIdle /\ CorpusIdle

SpecDownload == InitDlAll /\ [][NextDl]_vars

InitCorpusAll == InitCorpus /\ ScoreIdle /\ LabelIdle /\ LockIdle /\ DlIdle

SpecCorpus == InitCorpusAll /\ [][NextCorpus]_vars

InitUsageAll == CorpusIdle /\ ScoreIdle /\ LabelIdle /\ LockIdle /\ DlIdle

SpecUsage == InitUsageAll /\ [][NextUsage]_vars

SpecCache == InitCorpusAll /\ [][NextCache]_vars

(***************************************************************************)
(* Properties.                                                             *)
(***************************************************************************)

SeqSet(s) == {s[i] : i \in 1..Len(s)}

NoDup(s) == \A i, j \in 1..Len(s) : i # j => s[i] # s[j]

ManifestUids == {manifest[i][2] : i \in {k \in 1..Len(manifest) : Len(manifest[k]) = 2}}

\* C1: after a successful construction the train, valid and test lists hold
\* no record id twice (within a list or across lists), together they hold
\* exactly the keys of all_data, and there is one record id per manifest
\* identifier.
C1_SplitsPartition ==
    phase = "done" =>
        LET ids == split2uids["train"] \o split2uids["valid"] \o split2uids["test"]
        IN /\ NoDup(ids)
           /\ SeqSet(ids) = KeySet(all_data)
           /\ Cardinality(KeySet(all_data)) = Cardinality(ManifestUids)

\* C2: the constructor gets past the file search only with a mapping that
\* holds, for every manifest identifier and nothing else, the one file that
\* matches it; while tasks are running no mapping is visible; a constructor
\* that aborts leaves no mapping and no records.
C2_ExactlyOneMatch ==
    /\ phase \in {"data", "done"} =>
          /\ KeySet(uid2wavpath) = ManifestUids
          /\ Len(uid2wavpath) = Cardinality(ManifestUids)
          /\ \A i \in 1..Len(uid2wavpath) :
                Glob(dataset_root, uid2wavpath[i][1]) = {uid2wavpath[i][2]}
    /\ phase = "search" => (uid2wavpath = <<>> /\ all_data = <<>>)
    /\ phase = "aborted" => (uid2wavpath = <<>> /\ all_data = <<>>)

C2_Witness ==
    /\ phase = "done"
    /\ Len(uid2wavpath) = 2
    /\ searches = 2
    /\ \E u \in Uids : Cardinality(Glob(dataset_root, u)) # 1

\* C3: when several processes run _get_standard_usage, at most one of them
\* ever executes the download-and-write step, and no two processes write
\* the manifest file at the same time.
C3_DownloadedOnce ==
    /\ Cardinality({p \in Procs : downloads[p] > 0}) <= 1
    /\ Cardinality({p \in Procs : pc[p] = "writing"}) <= 1

ValidFeatures ==
    /\ Len(features) = 3
    /\ features[1] >= 1
    /\ features[2] >= 1
    /\ features[3] = input_dim

\* C4: for a valid input of shape (N, T, H), N >= 1, T >= 1, H = input_dim,
\* forward returns a 1-dimensional result of length N.
C4_ForwardReturnsNValues ==
    (fwd # "constructed" /\ ValidFeatures) =>
        /\ fwd = "returned"
        /\ segment_score.shape = <<features[1]>>

IllFormedFeatures ==
    \/ Len(features) # 3
    \/ Len(features) = 3 /\ features[2] = 0

\* C5: for an input whose rank is not 3, or whose sequence dimension is
\* empty, forward raises and returns no score.
C5_IllFormedInputRaises ==
    (fwd # "constructed" /\ IllFormedFeatures) => fwd = "raised"

Uid10001 == <<"i", "d", "1", "0", "0", "0", "1">> \o UidTail

Uid10050 == <<"i", "d", "1", "0", "0", "5", "0">> \o UidTail

Speaker0 == <<"s", "p", "e", "a", "k", "e", "r", "_", "0">>

Speaker49 == <<"s", "p", "e", "a", "k", "e", "r", "_", "4", "9">>

ExpectedIndex(n) ==
    IF n >= LabelOffset THEN NatStr(n - LabelOffset)
    ELSE <<"-">> \o NatStr(LabelOffset - n)

\* C6: for an identifier id<n>/..., _build_label returns speaker_<n - 10001>;
\* id10001 gives speaker_0 and id10050 gives speaker_49; n >= 10001 gives a
\* non-negative index; two identifiers get the same label exactly when
\* their speaker codes are equal.
C6_BuildLabel ==
    /\ \A i \in 1..2 :
        (label_out[i] # NotCalled /\ label_src[i].digits) =>
            /\ label_out[i] = SpeakerPrefix \o ExpectedIndex(label_src[i].code)
            /\ label_src[i].code >= LabelOffset =>
                  /\ Len(label_out[i]) > Len(SpeakerPrefix)
                  /\ \A k \in (Len(SpeakerPrefix) + 1)..Len(label_out[i]) :
                        IsDigit(label_out[i][k])
            /\ label_uid[i] = Uid10001 => label_out[i] = Speaker0
            /\ label_uid[i] = Uid10050 => label_out[i] = Speaker49
    /\ (/\ label_out[1] # NotCalled /\ label_out[2] # NotCalled
        /\ label_src[1].digits /\ label_src[2].digits) =>
            ((label_out[1] = label_out[2]) <=> (label_src[1].code = label_src[2].code))

C6_Witness ==
    /\ label_uid[1] = Uid10050
    /\ label_out[1] = Speaker49
    /\ label_uid[2] # label_uid[1]
    /\ label_out[2] = label_out[1]

\* C9: no process reads the manifest file while another process is inside
\* the download-and-write step, so every read sees the complete file.
C9_NoReadDuringDownload ==
    [][\A p \in Procs :
          (pc[p] = "read" /\ pc'[p] = "done") =>
              /\ \A q \in Procs \ {p} : pc[q] # "writing"
              /\ read_saw'[p] = "complete"]_vars

\* C7: a constructor that runs after a file search for the same dataset_root
\* and the same set of identifiers has produced a mapping makes no file
\* search, and the mapping it uses is that mapping.
C7_CacheReuse ==
    prior # {} =>
        /\ phase # "search"
        /\ searches = 0
        /\ phase \in {"data", "done"} => prior = {uid2wavpath}

C7_Witness ==
    /\ drops = 1
    /\ phase = "done"
    /\ prior # {}
    /\ searches = 0
    /\ Len(uid2wavpath) = 2
    /\ Keys(uid2split) # Sorted(Keys(uid2split))

AllExtractedAtStart ==
    \A k \in 1..Len(dl_splits) : dl_splits[k] \in dl_start.wav_dirs

\* C8: in a call of download_dataset, the loop step for a split whose
\* Voxceleb1/<split>/wav exists issues no HTTP request and changes no file;
\* a call that finds every requested split extracted returns with the file
\* system as it found it and with no request made.
C8_DownloadIdempotent ==
    /\ [][(/\ dl_pc = "loop"
           /\ dl_i <= Len(dl_splits)
           /\ dl_splits[dl_i] \in wav_dirs
           /\ dl_i' # dl_i \/ dl_pc' # dl_pc)
          => (files' = files /\ wav_dirs' = wav_dirs /\ dl_http' = dl_http
              /\ dl_pc' = "loop")]_vars
    /\ [](( /\ dl_pc \in {"loop", "returned", "raised"}
            /\ tgt_exists
            /\ AllExtractedAtStart)
          => (/\ files = dl_start.files
              /\ wav_dirs = dl_start.wav_dirs
              /\ dl_http = {}
              /\ dl_pc # "raised"))

C8_Witness ==
    /\ dl_calls = 2
    /\ dl_pc = "returned"
    /\ dl_splits = <<"dev", "test">>
    /\ AllExtractedAtStart
    /\ wav_dirs = {"dev", "test"}

\* C10: an utterance gets its split only from a split code in {1, 2, 3}
\* (1 train, 2 valid, 3 test); a manifest with a line whose split code is
\* outside {1, 2, 3} makes _get_standard_usage abort.
C10_BadCodeAborts ==
    phase \notin {"idle", "usage"} =>
        /\ (\E i \in 1..Len(manifest) :
               Len(manifest[i]) = 2 /\ manifest[i][1] \notin {1, 2, 3})
           => phase = "aborted"
        /\ \A k \in 1..Len(uid2split) :
              \E i \in 1..Len(manifest) :
                 /\ Len(manifest[i]) = 2
                 /\ manifest[i][2] = uid2split[k][1]
                 /\ manifest[i][1] \in {1, 2, 3}
                 /\ uid2split[k][2] = SplitNames3[manifest[i][1]]

====
